---- MODULE Spec2Model ----
(***************************************************************************)
(* Model of isopod's command-line entry point (main.go) and of the GKE     *)
(* credential resolver (package gke).  One behaviour is one process        *)
(* invocation: flag parsing and init(), command dispatch, the test phase,  *)
(* cluster discovery, the per-cluster visitor and the final exit status.   *)
(***************************************************************************)
EXTENDS Integers, Sequences, FiniteSets, TLC

VARIABLES
    pc,             \* position of the single control thread in init()/main()
    vaultToken,     \* --vault_token / $VAULT_TOKEN
    showVersion,    \* --version
    argv,           \* flag.Args()
    dryRun,         \* --dry_run
    addonRegex,     \* --match_addons
    isopodCtx,      \* --context
    svcAcctKeyFile, \* --sa_key
    cmd,            \* runtime.Command parsed by getCmdAndPath
    path,           \* target path parsed by getCmdAndPath
    testResult,     \* (ok, err) returned by runtime.RunUnitTests
    discovered,     \* the clusters ForEachCluster hands to the visitor, in order
    idx,            \* number of clusters already handed to the visitor
    kubeConfig,     \* result of the current cluster's KubeConfig call
    errorReturned,  \* main's errorReturned flag
    errorLines,     \* number of "addons run failed" log lines
    fatalLine,      \* which terminal log line (if any) ended the process
    exitStatus,     \* process exit status, NoExit while running
    setup,          \* results of the process-level setup steps, in order
    trace,          \* per-cluster steps performed so far
    calls           \* how often each collaborator was called

vars == <<pc, vaultToken, showVersion, argv, dryRun, addonRegex, isopodCtx,
          svcAcctKeyFile, cmd, path, testResult, discovered, idx, kubeConfig,
          errorReturned, errorLines, fatalLine, exitStatus, setup, trace,
          calls>>

----------------------------------------------------------------------------
(* Bounds *)

MaxClusters == 2

ClusterIds == 1 .. MaxClusters

(* Exit statuses *)

NoExit == -1
StatusSuccess == 0          \* return from main
StatusUsage == 1            \* usageAndDie: os.Exit(1)
StatusTestFailed == 1       \* os.Exit(1) after a false test result
StatusRunErrors == 2        \* os.Exit(2) when errorReturned
StatusGlogExit == 1         \* glog's Exitf ends the process with os.Exit(1)
StatusGlogFatal == 255      \* glog's Fatalf ends the process with os.Exit(255)
StatusPanic == 2            \* the Go runtime ends a panicking process with 2

TestCommand == "test"

----------------------------------------------------------------------------
(* Inputs of one invocation *)

EntryFile == "main.ipd"

ArgvSet == { <<>>,
             <<"test">>, <<"test", "tests/">>,
             <<"install">>, <<"install", "">>,
             <<"install", EntryFile>>, <<"remove", EntryFile>>,
             <<"list", EntryFile>> }

RegexSet == { "", "kube-.*", "(" }

\* regexp.Compile accepts the first two, rejects the unbalanced parenthesis
RegexpCompiles(re) == re \in { "", "kube-.*" }

CtxSet == { "", "env=prod", "env" }

KeyFileSet == { "", "sa.json" }

\* every order in which discovery can yield distinct clusters
ClusterSeqs ==
    { s \in UNION { [1 .. n -> ClusterIds] : n \in 0 .. MaxClusters } :
        \A i, j \in DOMAIN s : i # j => s[i] # s[j] }

NoConfig == [unset |-> TRUE]

CallNames == { "RunUnitTests", "ParseCtx", "ClustersNew", "ClustersLoad",
               "ForEachCluster", "VaultClient", "Clientset", "Store",
               "AddonsNew", "TokenSource", "ClientConfig" }

----------------------------------------------------------------------------
(* Helpers *)

Bump(c, name, n) == [c EXCEPT ![name] = @ + n]

\* what a step of main decides: where control goes, and, when the process
\* ends there, the exit status and the terminal log line
Goto(label) == [pc |-> label, status |-> NoExit, line |-> ""]

\* log.Exitf: one terminal log line, then the process exits
Exitf(line) == [pc |-> "done", status |-> StatusGlogExit, line |-> line]

\* log.Fatalf: one terminal log line with stacks, then the process exits
Fatalf(line) == [pc |-> "done", status |-> StatusGlogFatal, line |-> line]

\* os.Exit(code) and the return from main
Exit(code) == [pc |-> "done", status |-> code, line |-> ""]

\* an unrecovered panic unwinds main and the Go runtime ends the process
Panic(line) == [pc |-> "done", status |-> StatusPanic, line |-> line]

Take(o) ==
    /\ pc' = o.pc
    /\ exitStatus' = o.status
    /\ fatalLine' = o.line

Flags == <<vaultToken, showVersion, argv, dryRun, addonRegex, isopodCtx,
           svcAcctKeyFile>>

----------------------------------------------------------------------------
(* encoding/base64, StdEncoding.  Bytes are 0..255.  A text is a sequence  *)
(* of symbols: 0..63 the alphabet positions, PadSym for '=', BadSym for a  *)
(* character outside the alphabet.                                         *)

PadSym == 64
BadSym == 65

IsSextet(c) == c \in 0 .. 63

RECURSIVE EncodeToString(_)
EncodeToString(b) ==
    IF Len(b) = 0 THEN <<>>
    ELSE IF Len(b) = 1 THEN
        LET n == b[1] * 65536
        IN  <<n \div 262144, (n \div 4096) % 64, PadSym, PadSym>>
    ELSE IF Len(b) = 2 THEN
        LET n == b[1] * 65536 + b[2] * 256
        IN  <<n \div 262144, (n \div 4096) % 64, (n \div 64) % 64, PadSym>>
    ELSE
        LET n == b[1] * 65536 + b[2] * 256 + b[3]
        IN  <<n \div 262144, (n \div 4096) % 64, (n \div 64) % 64, n % 64>>
            \o EncodeToString(SubSeq(b, 4, Len(b)))

\* one quantum of four symbols; last = it is the final quantum of the text
DecodeQuantum(q, last) ==
    LET n == q[1] * 262144 + q[2] * 4096
             + (IF IsSextet(q[3]) THEN q[3] * 64 ELSE 0)
             + (IF IsSextet(q[4]) THEN q[4] ELSE 0)
    IN  IF ~IsSextet(q[1]) \/ ~IsSextet(q[2]) THEN [ok |-> FALSE, bytes |-> <<>>]
        ELSE IF IsSextet(q[3]) /\ IsSextet(q[4]) THEN
            [ok |-> TRUE,
             bytes |-> <<n \div 65536, (n \div 256) % 256, n % 256>>]
        ELSE IF last /\ IsSextet(q[3]) /\ q[4] = PadSym THEN
            [ok |-> TRUE, bytes |-> <<n \div 65536, (n \div 256) % 256>>]
        ELSE IF last /\ q[3] = PadSym /\ q[4] = PadSym THEN
            [ok |-> TRUE, bytes |-> <<n \div 65536>>]
        ELSE [ok |-> FALSE, bytes |-> <<>>]

RECURSIVE DecodeString(_)
DecodeString(t) ==
    IF Len(t) = 0 THEN [ok |-> TRUE, bytes |-> <<>>]
    ELSE IF Len(t) < 4 THEN [ok |-> FALSE, bytes |-> <<>>]
    ELSE
        LET q == DecodeQuantum(SubSeq(t, 1, 4), Len(t) = 4)
            r == DecodeString(SubSeq(t, 5, Len(t)))
        IN  IF q.ok /\ r.ok THEN [ok |-> TRUE, bytes |-> q.bytes \o r.bytes]
            ELSE [ok |-> FALSE, bytes |-> <<>>]

\* PEM bytes of the CA certificates the cluster-management API may hold
CABytesSet == { <<>>, <<77>>, <<45, 255>>, <<0, 77, 255>>, <<45, 45, 45, 45>> }

\* texts that are not StdEncoding base64: a character outside the alphabet,
\* a truncated quantum, padding in the middle, missing padding
BadCAFieldSet == { <<19, 16, BadSym, 20>>, <<19, 16, 20>>,
                   <<19, PadSym, 16, 20>>, <<19, 16, 0, 0, 19, 16>> }

CAFieldSet == { EncodeToString(x) : x \in CABytesSet } \cup BadCAFieldSet

----------------------------------------------------------------------------
(* package gke: the credential resolver.  env is what the file system, the *)
(* credential libraries and the cluster-management API answer during one   *)
(* call; id is the identity the next created token source gets.  A result  *)
(* carries the returned rest.Config and error, and fx, the collaborator   *)
(* calls the resolver made, in order.                                      *)

EnvSet == [ fileReadable : BOOLEAN, credParses : BOOLEAN, defaultOk : BOOLEAN,
            svcOk : BOOLEAN, lookupOk : BOOLEAN,
            endpoint : { "10.0.0.1" }, caField : CAFieldSet ]

NilConfig == [nil |-> TRUE]
NilTokenSrc == [kind |-> "nil", id |-> 0]
NoName == <<>>

UserAgent == <<"Isopod/", "<unknown>">>

Identity(c) == [name |-> <<"cluster", c>>, location |-> "us-central1",
                project |-> "acme"]


\* variant: the read error is not checked
GoogleCredTokenSourceFromSAKeyUnchecked(env, keyFile, id) ==
    IF ~env.credParses THEN
        [src |-> NilTokenSrc, fx |-> <<"ReadFile", "CredentialsFromJSON">>,
         err |-> <<"failed to extract credentials from json">>]
    ELSE
        [src |-> [kind |-> "sa_key", id |-> id],
         fx |-> <<"ReadFile", "CredentialsFromJSON">>, err |-> <<>>]

GoogleCredTokenSourceFromSAKey(env, keyFile, id) ==
    IF ~env.fileReadable THEN
        [src |-> NilTokenSrc, fx |-> <<"ReadFile">>,
         err |-> <<"failed to read the SA key json file">>]
    ELSE IF ~env.credParses THEN
        [src |-> NilTokenSrc, fx |-> <<"ReadFile", "CredentialsFromJSON">>,
         err |-> <<"failed to extract credentials from json">>]
    ELSE
        [src |-> [kind |-> "sa_key", id |-> id],
         fx |-> <<"ReadFile", "CredentialsFromJSON">>, err |-> <<>>]

\* variant: the transport is wrapped around the ambient credential
RestConfigAmbient(env, caCert, userAgent, tokenSrc) ==
    [Host |-> <<"https://", env.endpoint>>,
     CAData |-> caCert.bytes,
     WrapTransport |-> [kind |-> "default", id |-> tokenSrc.id],
     UserAgent |-> userAgent]

\* variant: the CA field is stored as received
RestConfigRawCA(env, caCert, userAgent, tokenSrc) ==
    [Host |-> <<"https://", env.endpoint>>,
     CAData |-> env.caField,
     WrapTransport |-> tokenSrc,
     UserAgent |-> userAgent]

\* buildKubeRestConf: the rest.Config it assembles
RestConfig(env, caCert, userAgent, tokenSrc) ==
    [Host |-> <<"https://", env.endpoint>>,
     CAData |-> caCert.bytes,
     WrapTransport |-> tokenSrc,
     UserAgent |-> userAgent]

\* variant: the decode error is not checked
buildKubeRestConfUnchecked(env, ident, userAgent, tokenSrc) ==
    LET name == <<"projects/", ident.project, "/locations/", ident.location,
                  "/clusters/", ident.name>>
        caCert == DecodeString(env.caField)
        base == [conf |-> NilConfig, err |-> <<>>, fx |-> <<"NewService">>,
                 svcTokenSrc |-> tokenSrc, getName |-> NoName]
    IN  IF ~env.svcOk THEN
            [base EXCEPT !.err = <<"failed to create the container service">>]
        ELSE IF ~env.lookupOk THEN
            [base EXCEPT !.err = <<"failed to retrieve cluster info">>,
                         !.fx = @ \o <<"Clusters.Get">>,
                         !.getName = name]
        ELSE
            [base EXCEPT !.fx = @ \o <<"Clusters.Get", "DecodeString">>,
                         !.getName = name,
                         !.conf = RestConfig(env, caCert, userAgent, tokenSrc)]

buildKubeRestConf(env, ident, userAgent, tokenSrc) ==
    LET name == <<"projects/", ident.project, "/locations/", ident.location,
                  "/clusters/", ident.name>>
        caCert == DecodeString(env.caField)
        base == [conf |-> NilConfig, err |-> <<>>, fx |-> <<"NewService">>,
                 svcTokenSrc |-> tokenSrc, getName |-> NoName]
    IN  IF ~env.svcOk THEN
            [base EXCEPT !.err = <<"failed to create the container service">>]
        ELSE IF ~env.lookupOk THEN
            [base EXCEPT !.err = <<"failed to retrieve cluster info">>,
                         !.fx = @ \o <<"Clusters.Get">>,
                         !.getName = name]
        ELSE IF ~caCert.ok THEN
            [base EXCEPT
                !.err = <<"failed to base64 decode the cluster CA cert">>,
                !.fx = @ \o <<"Clusters.Get", "DecodeString">>,
                !.getName = name]
        ELSE
            [base EXCEPT !.fx = @ \o <<"Clusters.Get", "DecodeString">>,
                         !.getName = name,
                         !.conf = RestConfig(env, caCert, userAgent, tokenSrc)]

BuildKubeRestConfDefaultCred(env, ident, userAgent, id) ==
    IF ~env.defaultOk THEN
        [conf |-> NilConfig, fx |-> <<"DefaultTokenSource">>,
         err |-> <<"failed to create the google DefaultTokenSource">>,
         svcTokenSrc |-> NilTokenSrc, getName |-> NoName]
    ELSE
        LET r == buildKubeRestConf(env, ident, userAgent,
                                   [kind |-> "default", id |-> id])
        IN  [r EXCEPT !.fx = <<"DefaultTokenSource">> \o @]


\* variant: a failed key file falls back to the default credential
BuildKubeRestConfSACredFallback(env, ident, keyFile, userAgent, id) ==
    IF keyFile = "" THEN
        BuildKubeRestConfDefaultCred(env, ident, userAgent, id)
    ELSE
        LET t == GoogleCredTokenSourceFromSAKey(env, keyFile, id)
        IN  IF t.err # <<>> THEN
                LET d == BuildKubeRestConfDefaultCred(env, ident, userAgent, id)
                IN  [d EXCEPT !.fx = t.fx \o @]
            ELSE
                LET r == buildKubeRestConf(env, ident, userAgent, t.src)
                IN  [r EXCEPT !.fx = t.fx \o @]

BuildKubeRestConfSACred(env, ident, keyFile, userAgent, id) ==
    IF keyFile = "" THEN
        BuildKubeRestConfDefaultCred(env, ident, userAgent, id)
    ELSE
        LET t == GoogleCredTokenSourceFromSAKey(env, keyFile, id)
        IN  IF t.err # <<>> THEN
                [conf |-> NilConfig, fx |-> t.fx,
                 err |-> <<"failed to get token source from service account">>
                         \o t.err,
                 svcTokenSrc |-> NilTokenSrc, getName |-> NoName]
            ELSE
                LET r == buildKubeRestConf(env, ident, userAgent, t.src)
                IN  [r EXCEPT !.fx = t.fx \o @]

\* token sources a call created: one per successful credential step
Created(r) ==
    IF r.svcTokenSrc = NilTokenSrc THEN 0 ELSE 1

\* rest.Config values a call returned
Configs(r) ==
    IF r.conf = NilConfig THEN 0 ELSE 1


----------------------------------------------------------------------------
(* package main *)

NoTest == [ok |-> FALSE, err |-> FALSE, ran |-> FALSE]

Step(step, err) == [step |-> step, res |-> IF err THEN "err" ELSE "ok"]

Event(step, res) == [step |-> step, cluster |-> discovered[idx], res |-> res]

Init ==
    /\ pc = "init"
    /\ vaultToken \in { "", "s.token" }
    /\ showVersion \in BOOLEAN
    /\ argv \in ArgvSet
    /\ dryRun \in BOOLEAN
    /\ addonRegex \in RegexSet
    /\ isopodCtx \in CtxSet
    /\ svcAcctKeyFile \in KeyFileSet
    /\ cmd = ""
    /\ path = ""
    /\ testResult = NoTest
    /\ discovered = <<>>
    /\ idx = 0
    /\ kubeConfig = NoConfig
    /\ errorReturned = FALSE
    /\ errorLines = 0
    /\ fatalLine = ""
    /\ exitStatus = NoExit
    /\ setup = <<>>
    /\ trace = <<>>
    /\ calls = [n \in CallNames |-> 0]

\* func init(): the vault token must be set
OnInit(token) ==
    IF token = "" THEN Fatalf("--vault_token or $VAULT_TOKEN must be set")
    ELSE Goto("main")

GoInit ==
    /\ pc = "init"
    /\ Take(OnInit(vaultToken))
    /\ UNCHANGED <<Flags, setup, cmd, path, testResult, discovered, idx,
                   kubeConfig, errorReturned, errorLines, trace, calls>>

\* main: --version prints and returns
OnShowVersion(v) == IF v THEN Exit(StatusSuccess) ELSE Goto("getCmd")

ShowVersion ==
    /\ pc = "main"
    /\ Take(OnShowVersion(showVersion))
    /\ UNCHANGED <<Flags, setup, cmd, path, testResult, discovered, idx,
                   kubeConfig, errorReturned, errorLines, trace, calls>>


\* variant: a lone command is a usage error, test included
getCmdAndPathStrict(a) ==
    IF Len(a) < 2 THEN [die |-> TRUE, cmd |-> "", path |-> ""]
    ELSE [die |-> FALSE, cmd |-> a[1], path |-> a[2]]

\* getCmdAndPath; die = usageAndDie was called
getCmdAndPath(a) ==
    IF Len(a) < 1 THEN [die |-> TRUE, cmd |-> "", path |-> ""]
    ELSE IF Len(a) < 2 THEN
        IF a[1] = TestCommand THEN [die |-> FALSE, cmd |-> a[1], path |-> ""]
        ELSE [die |-> TRUE, cmd |-> "", path |-> ""]
    ELSE [die |-> FALSE, cmd |-> a[1], path |-> a[2]]


\* variant: the test command is not special-cased
OnCommandNoTest(c) == Goto("mainFile")

\* main: the test command is dispatched before anything else
OnCommand(c) == IF c = TestCommand THEN Goto("test") ELSE Goto("mainFile")

GetCmdAndPath ==
    /\ pc = "getCmd"
    /\ LET r == getCmdAndPath(argv)
       IN  /\ cmd' = r.cmd
           /\ path' = r.path
           /\ Take(IF r.die THEN [Exit(StatusUsage) EXCEPT !.line = "usage"]
                   ELSE OnCommand(r.cmd))
    /\ UNCHANGED <<Flags, setup, testResult, discovered, idx, kubeConfig,
                   errorReturned, errorLines, trace, calls>>

\* main: result of runtime.RunUnitTests
OnTestResult(ok, err) ==
    IF err THEN Exitf("Failed to run tests")
    ELSE IF ~ok THEN Exit(StatusTestFailed)
    ELSE Exit(StatusSuccess)

RunUnitTests ==
    /\ pc = "test"
    /\ \E ok \in BOOLEAN, err \in BOOLEAN :
        /\ testResult' = [ok |-> ok, err |-> err, ran |-> TRUE]
        /\ Take(OnTestResult(ok, err))
    /\ calls' = Bump(calls, "RunUnitTests", 1)
    /\ UNCHANGED <<Flags, setup, cmd, path, discovered, idx, kubeConfig,
                   errorReturned, errorLines, trace>>

OnMainFile(mainFile) ==
    IF mainFile = "" THEN Exitf("path to main Starlark entry file must be set")
    ELSE Goto("parseCtx")

CheckMainFile ==
    /\ pc = "mainFile"
    /\ Take(OnMainFile(path))
    /\ setup' = Append(setup, Step("mainFile", path = ""))
    /\ UNCHANGED <<Flags, cmd, path, testResult, discovered, idx,
                   kubeConfig, errorReturned, errorLines, trace, calls>>

\* util.ParseCommaSeparatedParams: a list of foo=bar parameters
ParamsParse(s) == s \in { "", "env=prod" }

OnParams(ok) ==
    IF ~ok THEN Exitf("Invalid value to --context") ELSE Goto("clustersNew")

ParseParams ==
    /\ pc = "parseCtx"
    /\ Take(OnParams(ParamsParse(isopodCtx)))
    /\ setup' = Append(setup, Step("ParseCommaSeparatedParams",
                                   ~ParamsParse(isopodCtx)))
    /\ calls' = Bump(calls, "ParseCtx", 1)
    /\ UNCHANGED <<Flags, cmd, path, testResult, discovered, idx, kubeConfig,
                   errorReturned, errorLines, trace>>

\* buildClustersRuntime: runtime.New for the discovery runtime
OnClustersNew(err) ==
    IF err THEN Exitf("Failed to initialize clusters runtime")
    ELSE Goto("clustersLoad")

buildClustersRuntime ==
    /\ pc = "clustersNew"
    /\ \E err \in BOOLEAN :
        /\ setup' = Append(setup, Step("New", err))
        /\ Take(OnClustersNew(err))
    /\ calls' = Bump(calls, "ClustersNew", 1)
    /\ UNCHANGED <<Flags, cmd, path, testResult, discovered, idx, kubeConfig,
                   errorReturned, errorLines, trace>>


\* variant: the load error is dropped
OnClustersLoadIgnored(err) == Goto("forEach")

\* main: clusters.Load
OnClustersLoad(err) ==
    IF err THEN Exitf("Failed to load clusters runtime")
    ELSE Goto("forEach")

ClustersLoad ==
    /\ pc = "clustersLoad"
    /\ \E err \in BOOLEAN :
        /\ setup' = Append(setup, Step("Load", err))
        /\ Take(OnClustersLoad(err))
    /\ calls' = Bump(calls, "ClustersLoad", 1)
    /\ UNCHANGED <<Flags, cmd, path, testResult, discovered, idx, kubeConfig,
                   errorReturned, errorLines, trace>>

\* clusters.ForEachCluster is entered: discovery fixes the clusters and
\* their order
ForEachClusterCall ==
    /\ pc = "forEach"
    /\ \E s \in ClusterSeqs : discovered' = s
    /\ idx' = 0
    /\ Take(Goto("iter"))
    /\ calls' = Bump(calls, "ForEachCluster", 1)
    /\ UNCHANGED <<Flags, setup, cmd, path, testResult, kubeConfig,
                   errorReturned, errorLines, trace>>

\* ForEachCluster hands the next cluster to the visitor
ForEachClusterVisit ==
    /\ pc = "iter"
    /\ idx < Len(discovered)
    /\ idx' = idx + 1
    /\ Take(Goto("kubeConfig"))
    /\ UNCHANGED <<Flags, setup, cmd, path, testResult, discovered,
                   kubeConfig, errorReturned, errorLines, trace, calls>>

\* main: ForEachCluster returned
OnForEachCluster(err) ==
    IF err THEN Exitf("Failed to iterate through clusters")
    ELSE Goto("finalize")

\* ForEachCluster returns an error, before or between visits
ForEachClusterError ==
    /\ pc = "iter"
    /\ Take(OnForEachCluster(TRUE))
    /\ setup' = Append(setup, Step("ForEachCluster", TRUE))
    /\ UNCHANGED <<Flags, cmd, path, testResult, discovered, idx, kubeConfig,
                   errorReturned, errorLines, trace, calls>>

\* ForEachCluster returns nil after the last cluster
ForEachClusterReturn ==
    /\ pc = "iter"
    /\ idx = Len(discovered)
    /\ Take(OnForEachCluster(FALSE))
    /\ setup' = Append(setup, Step("ForEachCluster", FALSE))
    /\ UNCHANGED <<Flags, cmd, path, testResult, discovered, idx, kubeConfig,
                   errorReturned, errorLines, trace, calls>>


\* variant: a credential failure skips the cluster
OnKubeConfigSoft(err) == IF err THEN Goto("iter") ELSE Goto("buildAddons")

\* visitor: k8sVendor.KubeConfig
OnKubeConfig(err) ==
    IF err THEN Exitf("Failed to build kube rest config for k8s vendor")
    ELSE Goto("buildAddons")

\* the GKE vendor's KubeConfig resolves through BuildKubeRestConfSACred
KubeConfig ==
    /\ pc = "kubeConfig"
    /\ \E env \in EnvSet :
        LET r == BuildKubeRestConfSACred(env, Identity(discovered[idx]),
                     svcAcctKeyFile, UserAgent, calls["TokenSource"] + 1)
        IN  /\ kubeConfig' = [env |-> env, out |-> r]
            /\ calls' = Bump(Bump(calls, "TokenSource", Created(r)),
                             "ClientConfig", Configs(r))
            /\ trace' = Append(trace, Event("KubeConfig",
                                  IF r.err # <<>> THEN "err" ELSE "ok"))
            /\ Take(OnKubeConfig(r.err # <<>>))
    /\ UNCHANGED <<Flags, setup, cmd, path, testResult, discovered, idx,
                   errorReturned, errorLines>>

\* buildAddonsRuntime: what it constructed, in order, and how it ended
buildAddonsRuntime(vaultErr, csErr, newErr, re) ==
    IF vaultErr THEN [res |-> "err", made |-> <<>>]
    ELSE IF csErr THEN [res |-> "err", made |-> <<"VaultClient">>]
    ELSE IF ~RegexpCompiles(re) THEN
        [res |-> "panic", made |-> <<"VaultClient", "Clientset", "Store">>]
    ELSE IF newErr THEN
        [res |-> "err", made |-> <<"VaultClient", "Clientset", "Store">>]
    ELSE [res |-> "ok",
          made |-> <<"VaultClient", "Clientset", "Store", "AddonsNew">>]


\* variant: the runtime is run without being loaded
OnAddonsRuntimeNoLoad(res) ==
    IF res = "panic" THEN Panic("regexp: Compile")
    ELSE IF res = "err" THEN Exitf("Failed to initialize runtime")
    ELSE Goto("addonsRun")

\* visitor: result of buildAddonsRuntime
OnAddonsRuntime(res) ==
    IF res = "panic" THEN Panic("regexp: Compile")
    ELSE IF res = "err" THEN Exitf("Failed to initialize runtime")
    ELSE Goto("addonsLoad")

Made(made, name) == Cardinality({ i \in DOMAIN made : made[i] = name })

BuildAddonsRuntime ==
    /\ pc = "buildAddons"
    /\ \E vaultErr \in BOOLEAN, csErr \in BOOLEAN, newErr \in BOOLEAN :
        LET r == buildAddonsRuntime(vaultErr, csErr, newErr, addonRegex)
        IN  /\ calls' = [n \in CallNames |-> calls[n] + Made(r.made, n)]
            /\ trace' = Append(trace, Event("buildAddonsRuntime", r.res))
            /\ Take(OnAddonsRuntime(r.res))
    /\ UNCHANGED <<Flags, setup, cmd, path, testResult, discovered, idx,
                   kubeConfig, errorReturned, errorLines>>


\* variant: a failed load is tried again
OnAddonsLoadRetry(err) ==
    IF err THEN Goto("addonsLoad") ELSE Goto("addonsRun")

\* visitor: addons.Load
OnAddonsLoad(err) ==
    IF err THEN Exitf("Failed to load addons runtime") ELSE Goto("addonsRun")

AddonsLoad ==
    /\ pc = "addonsLoad"
    /\ \E err \in BOOLEAN :
        /\ trace' = Append(trace, Event("Load", IF err THEN "err" ELSE "ok"))
        /\ Take(OnAddonsLoad(err))
    /\ UNCHANGED <<Flags, setup, cmd, path, testResult, discovered, idx,
                   kubeConfig, errorReturned, errorLines, calls>>


\* variant: the iteration ends at the first failed run
OnAddonsRunStop(err) == IF err THEN Goto("finalize") ELSE Goto("iter")

\* visitor: addons.Run; a failure is logged and remembered, the visitor
\* returns and the iteration goes on
OnAddonsRun(err) == Goto("iter")


\* variant: the flag holds the last run's result only
RecordRunLast(flag, err) == err

RecordRun(flag, err) == IF err THEN TRUE ELSE flag

AddonsRun ==
    /\ pc = "addonsRun"
    /\ \E err \in BOOLEAN :
        /\ trace' = Append(trace, Event("Run", IF err THEN "err" ELSE "ok"))
        /\ errorReturned' = RecordRun(errorReturned, err)
        /\ errorLines' = errorLines + (IF err THEN 1 ELSE 0)
        /\ Take(OnAddonsRun(err))
    /\ kubeConfig' = NoConfig
    /\ UNCHANGED <<Flags, setup, cmd, path, testResult, discovered, idx, calls>>


\* variant: the flag is read inverted
OnFinalizeInverted(flag) ==
    IF flag THEN Exit(StatusSuccess) ELSE Exit(StatusRunErrors)

\* main: the exit status after the iteration
OnFinalize(flag) == IF flag THEN Exit(StatusRunErrors) ELSE Exit(StatusSuccess)

Finalize ==
    /\ pc = "finalize"
    /\ Take(OnFinalize(errorReturned))
    /\ UNCHANGED <<Flags, setup, cmd, path, testResult, discovered, idx,
                   kubeConfig, errorReturned, errorLines, trace, calls>>

Next ==
    \/ GoInit
    \/ ShowVersion
    \/ GetCmdAndPath
    \/ RunUnitTests
    \/ CheckMainFile
    \/ ParseParams
    \/ buildClustersRuntime
    \/ ClustersLoad
    \/ ForEachClusterCall
    \/ ForEachClusterVisit
    \/ ForEachClusterError
    \/ ForEachClusterReturn
    \/ KubeConfig
    \/ BuildAddonsRuntime
    \/ AddonsLoad
    \/ AddonsRun
    \/ Finalize

Spec == Init /\ [][Next]_vars

TypeOK ==
    /\ pc \in { "init", "main", "getCmd", "test", "mainFile", "parseCtx",
                "clustersNew", "clustersLoad", "forEach", "iter",
                "kubeConfig", "buildAddons", "addonsLoad", "addonsRun",
                "finalize", "done" }
    /\ exitStatus \in { NoExit, 0, 1, 2, 255 }
    /\ idx \in 0 .. Len(discovered)
    /\ discovered \in ClusterSeqs
    /\ Len(trace) <= 4 * MaxClusters
    /\ (pc = "done") = (exitStatus # NoExit)


----------------------------------------------------------------------------
(* Properties *)

Done == pc = "done"

\* the command was parsed and is not the test command
NonTest == cmd # "" /\ cmd # TestCommand

\* the command line names the test command
TestRequested == Len(argv) >= 1 /\ argv[1] = TestCommand

Events(step) == { p \in DOMAIN trace : trace[p].step = step }

RunFailures == { p \in Events("Run") : trace[p].res = "err" }

\* a process-level setup step or a per-cluster setup step failed
SetupFailures == { p \in DOMAIN setup : setup[p].res = "err" }

ClusterSetupFailures ==
    { p \in DOMAIN trace : trace[p].step # "Run" /\ trace[p].res # "ok" }

SetupFailed == SetupFailures # {} \/ ClusterSetupFailures # {}

Iterating == calls["ForEachCluster"] = 1

VisitorSteps == <<"KubeConfig", "buildAddonsRuntime", "Load", "Run">>

\* C1: a finished non-test run over N clusters without setup failure in
\* which K runs failed, 0 < K < N, ran the workload once on each of the N
\* clusters, logged exactly K run failures and exited with status 2.
C1_PartialFailure ==
    LET N == Len(discovered)
        K == Cardinality(RunFailures)
    IN  (Done /\ NonTest /\ Iterating /\ ~SetupFailed /\ 0 < K /\ K < N)
        => /\ Cardinality(Events("Run")) = N
           /\ \A i \in 1 .. N :
                \E p \in Events("Run") : trace[p].cluster = discovered[i]
           /\ errorLines = K
           /\ exitStatus = StatusRunErrors

\* a run over two clusters whose first workload failed and second succeeded
C1_Witness ==
    /\ Done /\ NonTest /\ ~SetupFailed
    /\ Len(discovered) = 2
    /\ Len(trace) = 8
    /\ trace[4].res = "err" /\ trace[8].res = "ok"
    /\ errorLines = 1
    /\ exitStatus = StatusRunErrors

IterationFailures ==
    { p \in SetupFailures : setup[p].step = "ForEachCluster" }

\* C2 as stated: a finished non-test run in which some workload run failed
\* exits with status 2, whatever happened on the clusters after it (runs
\* in which the iteration itself returned an error are left aside).
C2_AnyFailureExitsTwo ==
    (Done /\ NonTest /\ RunFailures # {} /\ IterationFailures = {})
        => exitStatus = StatusRunErrors

\* C2: a finished non-test run in which the iteration returned without
\* error and no setup step failed exits with status 2 if some workload run
\* failed, whatever the later runs returned.
C2_FailureExitsTwoAtFinalize ==
    (Done /\ NonTest /\ RunFailures # {} /\ ~SetupFailed)
        => exitStatus = StatusRunErrors

\* the first cluster's run failed, the second cluster's run succeeded
C2_Witness ==
    /\ Done /\ NonTest /\ ~SetupFailed
    /\ Len(trace) = 8
    /\ trace[4].res = "err" /\ trace[8].res = "ok"
    /\ setup[Len(setup)] = Step("ForEachCluster", FALSE)
    /\ exitStatus = StatusRunErrors

\* the setup steps after the command dispatch: discovery construction and
\* load, cluster iteration, and the per-cluster steps before the run
ListedSetupFailures ==
    { p \in SetupFailures :
        setup[p].step \in { "New", "Load", "ForEachCluster" } }

\* C3: a non-test run ended by a failed discovery construction or load,
\* credential resolution, runtime construction, runtime load or cluster
\* iteration has an exit status outside {0, 1, 2}; status 1 in particular
\* is left to the test command.
C3_FatalStatusOutsideContract ==
    (Done /\ NonTest
          /\ (ListedSetupFailures # {} \/ ClusterSetupFailures # {}))
        => exitStatus \notin { StatusSuccess, StatusTestFailed,
                               StatusRunErrors }

\* C4: a finished non-test run is a full success with status 0, or
\* completed with run errors with status 2, or was ended by a setup
\* failure with a status that is neither 0 nor 2.
C4_ThreeDistinctStatuses ==
    (Done /\ NonTest) =>
        /\ (~SetupFailed /\ RunFailures = {}) => exitStatus = StatusSuccess
        /\ (~SetupFailed /\ RunFailures # {}) => exitStatus = StatusRunErrors
        /\ SetupFailed
             => exitStatus \notin { StatusSuccess, StatusRunErrors, NoExit }

\* C5: when the command line names the test command, no discovery runtime
\* is constructed or loaded, no cluster is iterated, no credential is
\* resolved, no workload step happens, and a run that reached the command
\* dispatch ends in the test phase, with or without a target path.
C5_TestSkipsDiscovery ==
    TestRequested =>
        /\ trace = <<>>
        /\ setup = <<>>
        /\ kubeConfig = NoConfig
        /\ \A n \in CallNames \ { "RunUnitTests" } : calls[n] = 0
        /\ (Done /\ vaultToken # "" /\ ~showVersion)
             => testResult.ran /\ calls["RunUnitTests"] = 1

\* the test command without a target path ran the tests and ended
C5_Witness ==
    /\ Done
    /\ argv = <<"test">>
    /\ testResult.ran
    /\ path = ""

\* C6: the test command's exit status is a function of the runner's
\* result: 0 for ok, 1 for a false result, and for a harness error a
\* status that is neither 0 nor the one of a false result.
C6_TestStatus ==
    (Done /\ testResult.ran) =>
        /\ (testResult.ok /\ ~testResult.err) => exitStatus = StatusSuccess
        /\ (~testResult.ok /\ ~testResult.err) => exitStatus = StatusTestFailed
        /\ testResult.err
             => exitStatus \notin { StatusSuccess, StatusTestFailed }

\* C7: a finished non-test run whose discovery yielded no cluster and
\* whose iteration returned no error exits with status 0 after no
\* credential resolution, no runtime construction and no workload run.
C7_NoClusters ==
    (/\ Done /\ NonTest /\ Iterating
     /\ Len(discovered) = 0
     /\ SetupFailures = {})
        => /\ exitStatus = StatusSuccess
           /\ trace = <<>>
           /\ \A n \in { "TokenSource", "VaultClient", "Clientset", "Store",
                         "AddonsNew" } : calls[n] = 0

\* discovery loaded, yielded nothing, and the process ended
C7_Witness ==
    /\ Done /\ NonTest /\ Iterating
    /\ discovered = <<>>
    /\ setup[Len(setup)] = Step("ForEachCluster", FALSE)
    /\ exitStatus = StatusSuccess

DiscoveryFailures ==
    { p \in SetupFailures : setup[p].step \in { "New", "Load" } }

\* C8: once construction or load of the discovery runtime has failed, the
\* process has ended with a non-zero status and no iteration, credential
\* resolution, runtime construction or workload run has happened.
C8_DiscoveryFailureIsFatal ==
    DiscoveryFailures # {} =>
        /\ Done
        /\ exitStatus \notin { NoExit, StatusSuccess }
        /\ calls["ForEachCluster"] = 0
        /\ discovered = <<>>
        /\ trace = <<>>
        /\ \A n \in { "TokenSource", "VaultClient", "Clientset", "Store",
                      "AddonsNew" } : calls[n] = 0

\* the discovery runtime was constructed and its load failed
C8_Witness ==
    /\ Done
    /\ Len(setup) = 4
    /\ setup[3] = Step("New", FALSE)
    /\ setup[4] = Step("Load", TRUE)
    /\ exitStatus # StatusSuccess

\* C9: a failed credential resolution, runtime construction or runtime
\* load is the last per-cluster step of the run: the process has ended
\* with a non-zero status, nothing more happened for that cluster and
\* nothing for the clusters after it.
C9_ClusterSetupFailureStops ==
    \A p \in ClusterSetupFailures :
        /\ p = Len(trace)
        /\ Done
        /\ exitStatus \notin { NoExit, StatusSuccess }
        /\ trace[p].cluster = discovered[idx]
        /\ setup[Len(setup)].step # "ForEachCluster"

\* the first of two clusters failed to resolve; the second was never touched
C9_Witness ==
    /\ Done
    /\ Len(discovered) = 2
    /\ Len(trace) = 1
    /\ trace[1] = [step |-> "KubeConfig", cluster |-> discovered[1],
                   res |-> "err"]
    /\ exitStatus # StatusSuccess

\* C10: the per-cluster steps form one block per cluster in discovery's
\* order, each block being credential resolution, runtime construction,
\* runtime load, workload run, and a block starts only after the previous
\* block's run has returned.
C10_StepOrder ==
    \A p \in DOMAIN trace :
        /\ trace[p].step = VisitorSteps[((p - 1) % 4) + 1]
        /\ trace[p].cluster = discovered[((p - 1) \div 4) + 1]
        /\ p > 1 => /\ trace[p - 1].res = "ok" \/ trace[p - 1].step = "Run"
                    /\ (trace[p].cluster # trace[p - 1].cluster)
                         = (trace[p - 1].step = "Run")

\* two clusters, yielded in descending order, both fully processed
C10_Witness ==
    /\ discovered = <<2, 1>>
    /\ Len(trace) = 8
    /\ trace[4] = [step |-> "Run", cluster |-> 2, res |-> "err"]
    /\ trace[5] = [step |-> "KubeConfig", cluster |-> 1, res |-> "ok"]

----------------------------------------------------------------------------
(* Properties of the resolver and of the per-cluster resources *)

\* the visitor holds the result of a credential resolution
Resolved == kubeConfig # NoConfig

Range(f) == { f[i] : i \in DOMAIN f }

KubeConfigFailures ==
    { p \in Events("KubeConfig") : trace[p].res # "ok" }

ReachedFinalize ==
    Len(setup) > 0 /\ setup[Len(setup)] = Step("ForEachCluster", FALSE)

\* C11 as stated: when a non-test run has ended, one rest.Config was
\* created per cluster that discovery handed over; none for test.
C11_ConfigPerCluster ==
    /\ TestRequested => calls["ClientConfig"] = 0
    /\ (Done /\ NonTest /\ Iterating) => calls["ClientConfig"] = idx

\* C11: no rest.Config is created for the test command; when a non-test
\* run has ended, one was created per cluster handed to the visitor except
\* for the cluster whose credential resolution failed and ended the run,
\* which is one per discovered cluster when the run reached the end of the
\* iteration.
C11_ConfigPerResolvedCluster ==
    /\ TestRequested => calls["ClientConfig"] = 0
    /\ (Done /\ NonTest /\ Iterating)
         => calls["ClientConfig"] = idx - Cardinality(KubeConfigFailures)
    /\ (Done /\ NonTest /\ ReachedFinalize)
         => calls["ClientConfig"] = Len(discovered)

\* two clusters were discovered and both got a configuration
C11_Witness ==
    /\ Done /\ NonTest /\ ReachedFinalize
    /\ Len(discovered) = 2
    /\ calls["ClientConfig"] = 2

\* the key file gave a token source
KeyFileOk(env) == env.fileReadable /\ env.credParses

\* C12: a call uses the service-account key exactly when the key path is
\* not empty and the default credential exactly when it is empty, never
\* both; a key file that cannot be read or parsed ends the call with that
\* error, without configuration and without touching the default
\* credential.
C12_OneStrategyPerCall ==
    Resolved =>
        LET o == kubeConfig.out
            e == kubeConfig.env
        IN  /\ svcAcctKeyFile # ""
                 => /\ o.fx[1] = "ReadFile"
                    /\ "DefaultTokenSource" \notin Range(o.fx)
                    /\ o.svcTokenSrc.kind \in { "nil", "sa_key" }
            /\ svcAcctKeyFile = ""
                 => /\ o.fx[1] = "DefaultTokenSource"
                    /\ "ReadFile" \notin Range(o.fx)
                    /\ "CredentialsFromJSON" \notin Range(o.fx)
                    /\ o.svcTokenSrc.kind \in { "nil", "default" }
            /\ (svcAcctKeyFile # "" /\ ~KeyFileOk(e))
                 => /\ o.conf = NilConfig
                    /\ Len(o.err) = 2
                    /\ o.err[1] =
                         "failed to get token source from service account"
                    /\ o.err[2] =
                         (IF e.fileReadable
                          THEN "failed to extract credentials from json"
                          ELSE "failed to read the SA key json file")
                    /\ o.svcTokenSrc = NilTokenSrc

\* the key file did not parse although the default credential was there
C12_Witness ==
    /\ Done /\ Resolved
    /\ svcAcctKeyFile # ""
    /\ kubeConfig.env.fileReadable /\ ~kubeConfig.env.credParses
    /\ kubeConfig.env.defaultOk /\ kubeConfig.env.svcOk
    /\ kubeConfig.env.lookupOk
    /\ kubeConfig.out.err # <<>>

\* C13: with a key path whose file cannot be read, the call fails with the
\* key-file read error, returns no configuration, and has made no call to
\* the cluster-management API.
C13_UnreadableKeyFile ==
    (Resolved /\ svcAcctKeyFile # "" /\ ~kubeConfig.env.fileReadable)
        => /\ kubeConfig.out.err =
                  <<"failed to get token source from service account",
                    "failed to read the SA key json file">>
           /\ kubeConfig.out.conf = NilConfig
           /\ kubeConfig.out.fx = <<"ReadFile">>
           /\ kubeConfig.out.getName = NoName
           /\ Done /\ exitStatus # StatusSuccess

\* the file was unreadable while everything after it would have worked
C13_Witness ==
    /\ Done /\ Resolved
    /\ svcAcctKeyFile # ""
    /\ ~kubeConfig.env.fileReadable
    /\ kubeConfig.env.credParses /\ kubeConfig.env.svcOk
    /\ kubeConfig.env.lookupOk
    /\ kubeConfig.env.caField \notin BadCAFieldSet

\* the call got a token source and a management-API client
ReachedLookup(env) ==
    /\ IF svcAcctKeyFile = "" THEN env.defaultOk ELSE KeyFileOk(env)
    /\ env.svcOk

\* C14: when the lookup succeeded and the CA field is not base64, the
\* call fails with the decode error, which differs from the error of a
\* failed lookup, and returns no configuration; a configuration is only
\* returned for a CA field that decoded.
C14_BadCAField ==
    Resolved =>
        LET o == kubeConfig.out
            e == kubeConfig.env
        IN  /\ (ReachedLookup(e) /\ e.lookupOk /\ e.caField \in BadCAFieldSet)
                 => /\ o.err = <<"failed to base64 decode the cluster CA cert">>
                    /\ o.conf = NilConfig
                    /\ Done
            /\ (ReachedLookup(e) /\ ~e.lookupOk)
                 => /\ o.err = <<"failed to retrieve cluster info">>
                    /\ o.err # <<"failed to base64 decode the cluster CA cert">>
            /\ o.conf # NilConfig
                 => /\ e.caField \notin BadCAFieldSet
                    /\ o.fx[Len(o.fx)] = "DecodeString"

\* the lookup answered with a CA field holding padding in the middle
C14_Witness ==
    /\ Done /\ Resolved
    /\ ReachedLookup(kubeConfig.env) /\ kubeConfig.env.lookupOk
    /\ kubeConfig.env.caField = <<19, PadSym, 16, 20>>
    /\ kubeConfig.out.conf = NilConfig

\* C15: when the CA field is the base64 encoding of bytes X, a returned
\* configuration holds X as CA data, "https://" followed by the returned
\* endpoint as host, and the supplied user agent.
C15_RoundTrip ==
    (Resolved /\ kubeConfig.out.conf # NilConfig) =>
        /\ \A X \in CABytesSet :
             kubeConfig.env.caField = EncodeToString(X)
                 => kubeConfig.out.conf.CAData = X
        /\ \E X \in CABytesSet : kubeConfig.env.caField = EncodeToString(X)
        /\ kubeConfig.out.conf.Host = <<"https://", kubeConfig.env.endpoint>>
        /\ kubeConfig.out.conf.UserAgent = UserAgent

\* two bytes, encoded with one padding character, came back as sent
C15_Witness ==
    /\ Resolved
    /\ kubeConfig.env.caField = EncodeToString(<<45, 255>>)
    /\ kubeConfig.env.caField[4] = PadSym
    /\ kubeConfig.out.conf # NilConfig
    /\ kubeConfig.out.conf.CAData = <<45, 255>>

\* C16: with an empty key path, the token source is created once per
\* process, however many clusters are resolved.
C16_OneTokenSourcePerProcess ==
    (svcAcctKeyFile = "" /\ calls["ClientConfig"] >= 1)
        => calls["TokenSource"] = 1

\* the message with which each collaborator call of the resolver fails
StepError ==
    [ n \in { "ReadFile", "CredentialsFromJSON", "DefaultTokenSource",
              "NewService", "Clusters.Get", "DecodeString" } |->
        CASE n = "ReadFile" -> "failed to read the SA key json file"
          [] n = "CredentialsFromJSON" ->
                "failed to extract credentials from json"
          [] n = "DefaultTokenSource" ->
                "failed to create the google DefaultTokenSource"
          [] n = "NewService" -> "failed to create the container service"
          [] n = "Clusters.Get" -> "failed to retrieve cluster info"
          [] n = "DecodeString" ->
                "failed to base64 decode the cluster CA cert" ]

\* C17: discovery is constructed, loaded and iterated at most once; each
\* per-cluster step happens at most once per cluster; a resolve call makes
\* each of its collaborator calls at most once, and its error is the one
\* of the last call it made.
C17_NoRetry ==
    /\ \A n \in { "ParseCtx", "ClustersNew", "ClustersLoad",
                  "ForEachCluster", "RunUnitTests" } : calls[n] <= 1
    /\ \A p, q \in DOMAIN trace :
         (trace[p].step = trace[q].step /\ trace[p].cluster = trace[q].cluster)
             => p = q
    /\ \A n \in { "VaultClient", "Clientset", "Store", "AddonsNew" } :
         calls[n] <= Cardinality(Events("buildAddonsRuntime"))
    /\ Resolved =>
         LET o == kubeConfig.out
         IN  /\ \A i, j \in DOMAIN o.fx : o.fx[i] = o.fx[j] => i = j
             /\ o.err # <<>>
                  => o.err[Len(o.err)] = StepError[o.fx[Len(o.fx)]]

\* a resolve call went through key file, parse, lookup and decode once
\* each and ended on the decode error
C17_Witness ==
    /\ Done /\ Resolved
    /\ kubeConfig.out.fx = <<"ReadFile", "CredentialsFromJSON", "NewService",
                             "Clusters.Get", "DecodeString">>
    /\ kubeConfig.out.err = <<"failed to base64 decode the cluster CA cert">>
    /\ Len(trace) = 5

\* C18: with --dry_run set, no secrets-store client and no metadata store
\* is constructed.
C18_DryRunBuildsNoStore ==
    dryRun => calls["VaultClient"] = 0 /\ calls["Store"] = 0

\* C19: a process that ended with status 2 reached the end of the cluster
\* iteration without setup failure and at least one workload run returned
\* an error.
C19_StatusTwoMeansRunError ==
    (Done /\ exitStatus = StatusRunErrors)
        => /\ RunFailures # {}
           /\ ReachedFinalize
           /\ ~SetupFailed

\* C20: a returned configuration wraps the token source that authorized
\* this call's lookup: the one of the call's strategy, created by this
\* call.
C20_SameTokenSource ==
    (Resolved /\ kubeConfig.out.conf # NilConfig) =>
        /\ kubeConfig.out.conf.WrapTransport = kubeConfig.out.svcTokenSrc
        /\ kubeConfig.out.conf.WrapTransport.kind =
               (IF svcAcctKeyFile = "" THEN "default" ELSE "sa_key")
        /\ kubeConfig.out.conf.WrapTransport.id = calls["TokenSource"]

\* the second cluster of a run with a key file got its own token source
C20_Witness ==
    /\ Resolved
    /\ svcAcctKeyFile # ""
    /\ idx = 2
    /\ kubeConfig.out.conf # NilConfig
    /\ kubeConfig.out.conf.WrapTransport = [kind |-> "sa_key", id |-> 2]

====
